---- MODULE Spec2Model ----
(***************************************************************************)
(* Sharpify: the request-orchestration layer around the sharp engine.      *)
(*                                                                         *)
(*   ImageCache         src/src/cache.ts                                   *)
(*   Sharpify.process   src/src/ImageProcessor.ts (Promise.all batch)      *)
(*   queue scheduler    src/unnamed/part_002 (queueProcess/processQueue)   *)
(*                                                                         *)
(* A JavaScript string is modelled as a sequence of tokens, so that the    *)
(* empty string is << >> and JSON text is the sequence of its tokens.      *)
(* A Map is modelled as the sequence of its entries in insertion order,    *)
(* which is the order Map.prototype.entries() iterates in.                 *)
(***************************************************************************)
EXTENDS Integers, Sequences, FiniteSets, TLC

VARIABLES
    cache,        \* ImageCache.cache: Map<string, CacheEntry>, insertion order
    now,          \* the value Date.now() returns
    maxSize,      \* ImageCache.maxSize
    maxAge,       \* ImageCache.maxAge
    lastOp,       \* the last ImageCache call: its arguments, its return value, the store before it
    dead,         \* keys whose last get found them expired, with no set of that key since
    keyArgs,      \* the arguments of the key builders: an input and two option bags
    keyOut,       \* the keys built from them
    calls,        \* the Sharpify.process calls made so far, each with its outcome
    scheduler,    \* which batchProcess is loaded: "promiseAll" (ImageProcessor.ts) or "queue" (part_002)
    queue,        \* Sharpify.queue: the items waiting, as indexes into items
    isProcessing, \* Sharpify.isProcessing
    items,        \* the items of the batch: input, run of process, completion handle
    batch,        \* the promise batchProcess returned (Promise.all of the handles)
    overlap,      \* the promise of a second batchProcess call made while the first is in flight
    plan,         \* an option bag and the engine steps each version of process issues for it
    mark,         \* the arguments of the watermark placement and what it computes
    probe         \* the last call of an operation that bypasses the cache, with its outcome

cacheVars == <<cache, now, maxSize, maxAge>>
histVars  == <<lastOp, dead>>
keyVars   == <<keyArgs, keyOut>>
batchVars == <<scheduler, queue, isProcessing, items, batch, overlap>>
fnVars    == <<plan, mark, probe>>
vars      == <<cache, now, maxSize, maxAge, lastOp, dead, keyArgs, keyOut, calls,
               scheduler, queue, isProcessing, items, batch, overlap, plan, mark, probe>>

(***************************************************************************)
(* Bounds of the model.                                                    *)
(***************************************************************************)
MaxNow      == 3      \* the clock runs over 0..MaxNow
SmallSize   == 2      \* the cache specification builds caches with maxSize in 1..SmallSize
SmallAge    == 1      \* and maxAge = SmallAge clock units

EmptyString == << >>
CacheKeys   == {EmptyString, <<"a">>, <<"b">>}
CacheValues == {"r1", "r2"}

(***************************************************************************)
(* Map<string, CacheEntry>                                                 *)
(***************************************************************************)
MapHas(c, k) == \E i \in 1..Len(c) : c[i].key = k

MapIndex(c, k) == CHOOSE i \in 1..Len(c) : c[i].key = k

MapGet(c, k) == c[MapIndex(c, k)]

MapDelete(c, k) == SelectSeq(c, LAMBDA e : e.key # k)

\* Map.set keeps the position of a key that is already present.
MapSet(c, k, e) ==
    IF MapHas(c, k) THEN [c EXCEPT ![MapIndex(c, k)] = e] ELSE Append(c, e)

MapKeys(c) == {c[i].key : i \in 1..Len(c)}

(***************************************************************************)
(* ImageCache                                                              *)
(***************************************************************************)
\* The loop of removeOldestEntry: oldestKey starts undefined, oldestTime starts
\* at Date.now(), and an entry replaces them only if strictly older.
RECURSIVE OldestScan(_, _, _)
OldestScan(c, i, acc) ==
    IF i > Len(c) THEN acc
    ELSE IF c[i].timestamp < acc.oldestTime
         THEN OldestScan(c, i + 1,
                  [defined |-> TRUE, oldestKey |-> c[i].key, oldestTime |-> c[i].timestamp])
         ELSE OldestScan(c, i + 1, acc)

\* if (oldestKey): undefined and the empty string are both falsy.
KeyTruthy(acc) == acc.defined /\ acc.oldestKey # EmptyString

removeOldestEntry(c, t) ==
    LET acc == OldestScan(c, 1, [defined |-> FALSE, oldestKey |-> EmptyString, oldestTime |-> t])
    IN  IF KeyTruthy(acc) THEN MapDelete(c, acc.oldestKey) ELSE c

CacheSet(c, k, v, t, size) ==
    LET c1 == IF Len(c) >= size THEN removeOldestEntry(c, t) ELSE c
    IN  MapSet(c1, k, [key |-> k, timestamp |-> t, result |-> v])

Expired(e, t, age) == t - e.timestamp > age

\* A get that reports the miss but leaves the expired entry in the store.
CacheGetKeepsExpired(c, k, t, age) ==
    IF ~MapHas(c, k) THEN [cache |-> c, found |-> FALSE]
    ELSE IF t - MapGet(c, k).timestamp > age
         THEN [cache |-> c, found |-> FALSE]
         ELSE [cache |-> c, found |-> TRUE, value |-> MapGet(c, k).result]

\* A get that refreshes the timestamp of the entry it returns, as a cache
\* evicting by last access would.
CacheGetRefreshes(c, k, t, age) ==
    IF ~MapHas(c, k) THEN [cache |-> c, found |-> FALSE]
    ELSE IF Expired(MapGet(c, k), t, age)
         THEN [cache |-> MapDelete(c, k), found |-> FALSE]
         ELSE [cache |-> [c EXCEPT ![MapIndex(c, k)].timestamp = t],
               found |-> TRUE, value |-> MapGet(c, k).result]

\* A get that sweeps every expired entry out of the store.
CacheGetSweepsExpired(c, k, t, age) ==
    LET fresh == SelectSeq(c, LAMBDA e : ~Expired(e, t, age))
    IN  IF ~MapHas(fresh, k) THEN [cache |-> fresh, found |-> FALSE]
        ELSE [cache |-> fresh, found |-> TRUE, value |-> MapGet(fresh, k).result]

\* get: [cache |-> the store afterwards, found |-> hit or miss, value |-> the result on a hit]
CacheGet(c, k, t, age) ==
    IF ~MapHas(c, k) THEN [cache |-> c, found |-> FALSE]
    ELSE IF Expired(MapGet(c, k), t, age)
         THEN [cache |-> MapDelete(c, k), found |-> FALSE]
         ELSE [cache |-> c, found |-> TRUE, value |-> MapGet(c, k).result]

CacheClear(c) == << >>

(***************************************************************************)
(* The cache specification: one ImageCache(maxSize, maxAge) and a clock.   *)
(***************************************************************************)
InitCache ==
    /\ cache = << >>
    /\ now = 0
    /\ maxSize \in 1..SmallSize
    /\ maxAge = SmallAge
    /\ lastOp = [op |-> "new"]
    /\ dead = {}
    /\ keyArgs = << >>
    /\ keyOut = << >>
    /\ plan = [built |-> "none"] /\ mark = [built |-> "none"] /\ probe = [op |-> "none"]
    /\ calls = << >>
    /\ scheduler = "none" /\ queue = << >> /\ isProcessing = FALSE
    /\ items = << >> /\ batch = [state |-> "none"]
    /\ overlap = [state |-> "none"]

Set(k, v) ==
    /\ cache' = CacheSet(cache, k, v, now, maxSize)
    /\ lastOp' = [op |-> "set", key |-> k, value |-> v, at |-> now, before |-> cache]
    /\ dead' = dead \ {k}
    /\ UNCHANGED <<now, maxSize, maxAge, keyVars, fnVars, calls, batchVars>>

Get(k) ==
    LET r == CacheGet(cache, k, now, maxAge)
    IN  /\ cache' = r.cache
        /\ lastOp' = [op |-> "get", key |-> k, at |-> now, before |-> cache,
                      found |-> r.found, deadBefore |-> dead,
                      value |-> IF r.found THEN r.value ELSE "undefined"]
        /\ dead' = IF MapHas(cache, k) /\ Expired(MapGet(cache, k), now, maxAge)
                   THEN dead \cup {k} ELSE dead
        /\ UNCHANGED <<now, maxSize, maxAge, keyVars, fnVars, calls, batchVars>>

Clear ==
    /\ cache' = CacheClear(cache)
    /\ lastOp' = [op |-> "clear", before |-> cache]
    /\ UNCHANGED <<now, maxSize, maxAge, dead, keyVars, fnVars, calls, batchVars>>

Tick ==
    /\ now < MaxNow
    /\ now' = now + 1
    /\ lastOp' = [op |-> "tick"]
    /\ UNCHANGED <<cache, maxSize, maxAge, dead, keyVars, fnVars, calls, batchVars>>

NextCache ==
    \/ \E k \in CacheKeys, v \in CacheValues : Set(k, v)
    \/ \E k \in CacheKeys : Get(k)
    \/ Clear
    \/ Tick

SpecCache == InitCache /\ [][NextCache]_vars

(***************************************************************************)
(* Claims about ImageCache, checked under SpecCache.                       *)
(***************************************************************************)
MinTimestamp(c) == CHOOSE t \in {c[i].timestamp : i \in 1..Len(c)} :
                       \A j \in 1..Len(c) : t <= c[j].timestamp

WithoutIndex(c, i) == [j \in 1..(Len(c) - 1) |-> IF j < i THEN c[j] ELSE c[j + 1]]

\* C2: the number of stored entries never exceeds maxSize.
C2_SizeNeverExceedsMaxSize == Len(cache) <= maxSize

\* C3: a set of a key not yet stored, on a cache holding maxSize entries, removes
\* exactly one entry, one with the smallest timestamp, keeps every other entry
\* with its value and timestamp, and stores the key.
C3_SetAtCapacityEvictsOldest ==
    (/\ lastOp.op = "set"
     /\ ~MapHas(lastOp.before, lastOp.key)
     /\ Len(lastOp.before) = maxSize)
    => \E i \in 1..Len(lastOp.before) :
          /\ lastOp.before[i].timestamp = MinTimestamp(lastOp.before)
          /\ cache = Append(WithoutIndex(lastOp.before, i),
                            [key |-> lastOp.key, timestamp |-> lastOp.at,
                             result |-> lastOp.value])

\* C4: a get of a stored entry whose age now - timestamp is strictly greater than
\* maxAge is a miss and removes that entry, leaving every other entry unchanged;
\* and a get of a key that was found expired, with no set of it since, is a miss.
C4_ExpiredGetMissesAndRemoves ==
    /\ (/\ lastOp.op = "get"
        /\ MapHas(lastOp.before, lastOp.key)
        /\ lastOp.at - MapGet(lastOp.before, lastOp.key).timestamp > maxAge)
       => /\ ~lastOp.found
          /\ cache = SelectSeq(lastOp.before, LAMBDA e : e.key # lastOp.key)
    /\ (lastOp.op = "get" /\ lastOp.key \in lastOp.deadBefore) => ~lastOp.found
    /\ \A k \in dead : ~MapHas(cache, k)

\* An expired entry was looked up while another entry was stored beside it.
C4_Witness ==
    /\ lastOp.op = "get"
    /\ MapHas(lastOp.before, lastOp.key)
    /\ lastOp.at - MapGet(lastOp.before, lastOp.key).timestamp > maxAge
    /\ Len(lastOp.before) >= 2
    /\ lastOp.key \in dead

\* C19: a get of a stored entry whose age is at most maxAge (exactly maxAge
\* included) returns the stored result and leaves the whole cache unchanged: the
\* entries, their order and their timestamps, so that a read never refreshes the
\* timestamp eviction goes by.
C19_FreshGetHitsAndChangesNothing ==
    (/\ lastOp.op = "get"
     /\ MapHas(lastOp.before, lastOp.key)
     /\ lastOp.at - MapGet(lastOp.before, lastOp.key).timestamp <= maxAge)
    => /\ lastOp.found
       /\ lastOp.value = MapGet(lastOp.before, lastOp.key).result
       /\ cache = lastOp.before

\* An entry was read when its age was exactly maxAge, next to another entry.
C19_Witness ==
    /\ lastOp.op = "get"
    /\ MapHas(lastOp.before, lastOp.key)
    /\ lastOp.at - MapGet(lastOp.before, lastOp.key).timestamp = maxAge
    /\ maxAge > 0
    /\ Len(lastOp.before) >= 2
    /\ lastOp.found
    /\ MapGet(cache, lastOp.key).timestamp < lastOp.at

\* The entries of the store before the last call, other than the entry of the
\* key the call was given, that are no longer in the store.
RemovedOthers ==
    {i \in 1..Len(lastOp.before) :
        /\ lastOp.before[i].key # lastOp.key
        /\ \A j \in 1..Len(cache) : cache[j] # lastOp.before[i]}

\* C20: expiry is lazy.  A get removes no entry but, when it is expired, the one
\* of its own key; a set removes an entry of another key only through the
\* capacity check, which counts every stored entry, expired or not: none while
\* fewer than maxSize entries are stored, otherwise at most the one with the
\* oldest timestamp.  So an entry older than maxAge stays in the store until one
\* of the two picks it.
C20_ExpiryIsLazy ==
    /\ lastOp.op = "get" => RemovedOthers = {}
    /\ lastOp.op = "set"
       => /\ Cardinality(RemovedOthers) <= 1
          /\ Len(lastOp.before) < maxSize => RemovedOthers = {}
          /\ \A i \in RemovedOthers :
                 lastOp.before[i].timestamp = MinTimestamp(lastOp.before)

\* After a set below capacity, or a get of another key, an entry older than
\* maxAge is still stored.
C20_Witness ==
    /\ lastOp.op \in {"get", "set"}
    /\ Len(lastOp.before) < maxSize
    /\ \E i \in 1..Len(cache) :
           /\ cache[i].key # lastOp.key
           /\ Expired(cache[i], lastOp.at, maxAge)
           /\ \E j \in 1..Len(lastOp.before) : lastOp.before[j] = cache[i]

(***************************************************************************)
(* JavaScript values, option bags and JSON.stringify.                      *)
(*                                                                         *)
(* A value is [t, n, s]: a number (n), a string (s), a boolean (n = 1 for  *)
(* true), an object or undefined.  An option bag is the sequence of its    *)
(* <<name, value>> properties in insertion order.  JSON text is the        *)
(* sequence of its tokens, each token a value.                             *)
(***************************************************************************)
Num(n)    == [t |-> "num", n |-> n, s |-> ""]
Str(s)    == [t |-> "str", n |-> 0, s |-> s]
Bool(b)   == [t |-> "bool", n |-> IF b THEN 1 ELSE 0, s |-> ""]
Obj(s)    == [t |-> "obj", n |-> 0, s |-> s]
Undefined == [t |-> "undef", n |-> 0, s |-> ""]
Punct(s)  == [t |-> "punct", n |-> 0, s |-> s]

HasField(o, f) == \E i \in 1..Len(o) : o[i][1] = f

\* options.f: the property's value, undefined when the bag has no such property.
Opt(o, f) ==
    IF HasField(o, f) THEN o[CHOOSE i \in 1..Len(o) : o[i][1] = f][2] ELSE Undefined

RECURSIVE JoinFields(_, _)
JoinFields(o, i) ==
    IF i > Len(o) THEN << >>
    ELSE (IF i > 1 THEN <<Punct(",")>> ELSE << >>)
         \o <<Str(o[i][1]), Punct(":"), o[i][2]>>
         \o JoinFields(o, i + 1)

\* JSON.stringify of an object: its own properties in insertion order; a property
\* whose value is undefined is left out.
JSONStringifyObject(o) ==
    <<Punct("{")>>
    \o JoinFields(SelectSeq(o, LAMBDA p : p[2].t # "undef"), 1)
    \o <<Punct("}")>>

RECURSIVE JoinBytes(_, _)
JoinBytes(b, i) ==
    IF i > Len(b) THEN << >>
    ELSE (IF i > 1 THEN <<Punct(",")>> ELSE << >>) \o <<Num(b[i])>> \o JoinBytes(b, i + 1)

\* Buffer.prototype.toJSON: {"type":"Buffer","data":[...]}
JSONStringifyBuffer(b) ==
    <<Punct("{"), Str("type"), Punct(":"), Str("Buffer"), Punct(","),
      Str("data"), Punct(":"), Punct("[")>>
    \o JoinBytes(b, 1)
    \o <<Punct("]"), Punct("}")>>

\* ImageProcessor.ts: const cacheKey = JSON.stringify({ input, options })
ProcessCacheKey(input, options) ==
    <<Punct("{"), Str("input"), Punct(":")>> \o JSONStringifyBuffer(input)
    \o <<Punct(","), Str("options"), Punct(":")>> \o JSONStringifyObject(options)
    \o <<Punct("}")>>

\* Buffer.toString('base64'): three bytes make four sextets, a tail of one or two
\* bytes is padded with '='.
RECURSIVE Base64(_)
Base64(b) ==
    IF Len(b) = 0 THEN << >>
    ELSE IF Len(b) = 1 THEN
        <<Num(b[1] \div 4), Num((b[1] % 4) * 16), Punct("="), Punct("=")>>
    ELSE IF Len(b) = 2 THEN
        <<Num(b[1] \div 4), Num((b[1] % 4) * 16 + b[2] \div 16),
          Num((b[2] % 16) * 4), Punct("=")>>
    ELSE
        <<Num(b[1] \div 4), Num((b[1] % 4) * 16 + b[2] \div 16),
          Num((b[2] % 16) * 4 + b[3] \div 64), Num(b[3] % 64)>>
        \o Base64(SubSeq(b, 4, Len(b)))

HashLen == 32

Slice(q, n) == SubSeq(q, 1, IF Len(q) < n THEN Len(q) ELSE n)

\* part_002 getCacheKey, for a Buffer input:
\* `${input.toString('base64').slice(0, 32)}-${JSON.stringify(options)}`
getCacheKey(input, options) ==
    Slice(Base64(input), HashLen) \o <<Punct("-")>> \o JSONStringifyObject(options)

(***************************************************************************)
(* The key specification: both key builders applied to an input and two    *)
(* option bags.                                                            *)
(***************************************************************************)
KeyProps == {<<"width", Num(800)>>, <<"width", Num(801)>>, <<"format", Str("webp")>>}

\* Every bag of at most two properties with distinct names, in either order.
KeyBags ==
    {<< >>} \cup {<<p>> : p \in KeyProps}
    \cup {pq \in KeyProps \X KeyProps : pq[1][1] # pq[2][1]}

KeyInputs == {<<1>>, <<1, 2>>, <<2, 1, 3, 7>>}

InitKey ==
    /\ keyArgs \in [input : KeyInputs, a : KeyBags, b : KeyBags]
    /\ keyOut = [built |-> "none"]
    /\ plan = [built |-> "none"] /\ mark = [built |-> "none"] /\ probe = [op |-> "none"]
    /\ cache = << >> /\ now = 0 /\ maxSize = 1 /\ maxAge = 1
    /\ lastOp = [op |-> "new"] /\ dead = {}
    /\ calls = << >>
    /\ scheduler = "none" /\ queue = << >> /\ isProcessing = FALSE
    /\ items = << >> /\ batch = [state |-> "none"]
    /\ overlap = [state |-> "none"]

BuildProcessKeys ==
    /\ keyOut.built = "none"
    /\ keyOut' = [built |-> "process",
                  a |-> ProcessCacheKey(keyArgs.input, keyArgs.a),
                  b |-> ProcessCacheKey(keyArgs.input, keyArgs.b)]
    /\ UNCHANGED <<keyArgs, fnVars, cacheVars, histVars, calls, batchVars>>

BuildQueueKeys ==
    /\ keyOut.built = "none"
    /\ keyOut' = [built |-> "getCacheKey",
                  a |-> getCacheKey(keyArgs.input, keyArgs.a),
                  b |-> getCacheKey(keyArgs.input, keyArgs.b)]
    /\ UNCHANGED <<keyArgs, fnVars, cacheVars, histVars, calls, batchVars>>

NextKey == BuildProcessKeys \/ BuildQueueKeys

SpecKey == InitKey /\ [][NextKey]_vars

\* Two bags hold the same fields with the same values, whatever the insertion order.
SameFields(a, b) == {a[i] : i \in 1..Len(a)} = {b[i] : i \in 1..Len(b)}

\* C5: for the same input, two option bags with the same fields and values give
\* the same key whatever the insertion order of the fields, and two bags that
\* differ in a field or a value give different keys.
C5_KeyIgnoresFieldOrder ==
    keyOut.built # "none"
    => /\ SameFields(keyArgs.a, keyArgs.b) => keyOut.a = keyOut.b
       /\ ~SameFields(keyArgs.a, keyArgs.b) => keyOut.a # keyOut.b

(***************************************************************************)
(* Sharpify.process (src/src/ImageProcessor.ts)                            *)
(***************************************************************************)
\* JavaScript truthiness of a value.
Truthy(v) ==
    CASE v.t = "num"  -> v.n # 0
      [] v.t = "str"  -> v.s # ""
      [] v.t = "bool" -> v.n = 1
      [] v.t = "obj"  -> TRUE
      [] OTHER        -> FALSE

IsNumber(v) == v.t = "num"

Step(kind, args) == [kind |-> kind, args |-> args]

When(cond, step) == IF cond THEN <<step>> ELSE << >>

\* The transforms process chains on the pipeline before the watermark, in the
\* order of the source.
TransformSteps(o) ==
    When(Truthy(Opt(o, "width")) \/ Truthy(Opt(o, "height")),
         Step("resize", <<Opt(o, "width"), Opt(o, "height")>>))
    \o When(Truthy(Opt(o, "crop")), Step("extract", <<Opt(o, "crop")>>))
    \o When(Truthy(Opt(o, "blur")), Step("blur", <<Opt(o, "blur")>>))
    \o When(Truthy(Opt(o, "sharpen")), Step("sharpen", << >>))
    \o When(Truthy(Opt(o, "grayscale")), Step("grayscale", << >>))
    \o When(Truthy(Opt(o, "tint")), Step("tint", <<Opt(o, "tint")>>))
    \o When(IsNumber(Opt(o, "brightness")) \/ IsNumber(Opt(o, "saturation")),
            Step("modulate",
                 <<IF IsNumber(Opt(o, "brightness")) THEN Opt(o, "brightness") ELSE Undefined,
                   IF IsNumber(Opt(o, "saturation")) THEN Opt(o, "saturation") ELSE Undefined>>))
    \o When(IsNumber(Opt(o, "contrast")),
            Step("linear", <<Opt(o, "contrast"), Num(-(Opt(o, "contrast").n - 1) * 128)>>))
    \o When(Truthy(Opt(o, "rotate")), Step("rotate", <<Opt(o, "rotate")>>))
    \o When(Truthy(Opt(o, "flip")), Step("flip", << >>))
    \o When(Truthy(Opt(o, "flop")), Step("flop", << >>))

DefaultQuality == 80

\* A toFormat that is chained whether or not a format was asked for.
FormatStepsAlwaysEncodes(o) ==
    <<Step("toFormat",
           <<IF Truthy(Opt(o, "format")) THEN Opt(o, "format") ELSE Str("jpeg"),
             IF Truthy(Opt(o, "quality")) THEN Opt(o, "quality") ELSE Num(DefaultQuality)>>)>>

\* toFormat(options.format, { quality: options.quality || 80 })
FormatSteps(o) ==
    When(Truthy(Opt(o, "format")),
         Step("toFormat",
              <<Opt(o, "format"),
                IF Truthy(Opt(o, "quality")) THEN Opt(o, "quality") ELSE Num(DefaultQuality)>>))

\* A stage of one run of process: what is called, who catches its failure
\* ("addWatermark" when the try block of addWatermark does, "process" otherwise)
\* and whether it can fail.
Stage(kind, args, catcher, fails) ==
    [kind |-> kind, args |-> args, catcher |-> catcher, fails |-> fails]

AsStages(steps) ==
    [i \in 1..Len(steps) |-> Stage(steps[i].kind, steps[i].args, "process", "may")]

\* addWatermark: sharp(input), await image.metadata(), the dimensions check and
\* composite(...) are inside its try block; the promise of toBuffer() is returned
\* without await, so its rejection passes the catch of addWatermark by.
WatermarkStages(o) ==
    IF Truthy(Opt(o, "watermark"))
    THEN <<Stage("toBuffer", << >>, "process", "may"),
           Stage("sharp", <<Str("buffer")>>, "addWatermark", "never"),
           Stage("metadata", << >>, "addWatermark", "may"),
           Stage("dimensions", << >>, "addWatermark", "may"),
           Stage("composite", <<Opt(o, "watermark")>>, "addWatermark", "may"),
           Stage("toBuffer", << >>, "process", "may"),
           Stage("sharp", <<Str("watermarked")>>, "process", "never")>>
    ELSE << >>

\* sharp(input) throws on an empty Buffer; a run on any other Buffer fails, if it
\* does, in a later stage.
ProcessStages(input, o) ==
    <<Stage("sharp", <<Str("input")>>, "process",
            IF Len(input) = 0 THEN "always" ELSE "never")>>
    \o AsStages(TransformSteps(o))
    \o WatermarkStages(o)
    \o AsStages(FormatSteps(o))
    \o <<Stage("toBuffer", <<Str("resolveWithObject")>>, "process", "may"),
         Stage("sharp", <<Str("data")>>, "process", "never"),
         Stage("metadata", << >>, "process", "may")>>

\* The engine calls among the first n stages (the dimensions check is a test of
\* the metadata, not a call).
EngineCalls(stages, n) ==
    LET done == SubSeq(stages, 1, n)
        e    == SelectSeq(done, LAMBDA st : st.kind # "dimensions")
    IN  [i \in 1..Len(e) |-> Step(e[i].kind, e[i].args)]

\* The ProcessedImage a run produces is a function of the input and of the steps
\* applied to it.
Image(input, o) ==
    [src |-> input,
     steps |-> TransformSteps(o)
               \o When(Truthy(Opt(o, "watermark")), Step("composite", <<Opt(o, "watermark")>>))
               \o FormatSteps(o)]

NoError == [name |-> "none"]

\* The error a stage raises.
StageError(stages, f) ==
    [name |-> "Error", message |-> stages[f].kind, index |-> f]

\* new ImageProcessingError(message, error, operation)
ImageProcessingError(message, error, operation) ==
    [name |-> "ImageProcessingError", message |-> message,
     originalError |-> error, operation |-> operation]

\* What the catch block of addWatermark makes of a failure inside its try block.
WatermarkCatch(stages, f) ==
    IF stages[f].catcher = "addWatermark"
    THEN ImageProcessingError("Failed to add watermark to image",
                              StageError(stages, f), "addWatermark")
    ELSE StageError(stages, f)

\* What process throws for an error caught by its catch block.
ProcessRethrowsRaw(error) == error

ProcessCatch(error) == ImageProcessingError("Failed to process image", error, "process")

\* The indexes at which a run of these stages can fail; 0 is a run that succeeds.
FailPoints(stages) ==
    IF \E i \in 1..Len(stages) : stages[i].fails = "always"
    THEN {CHOOSE i \in 1..Len(stages) :
              /\ stages[i].fails = "always"
              /\ \A j \in 1..(i - 1) : stages[j].fails # "always"}
    ELSE {0} \cup {i \in 1..Len(stages) : stages[i].fails = "may"}

\* A process that stores under the key before the pipeline has run to its end,
\* so that a failing run leaves an entry behind.
ProcessStoresBeforeRun(c, t, size, age, input, o, f) ==
    LET cacheKey == ProcessCacheKey(input, o)
        got      == CacheGet(c, cacheKey, t, age)
        stages   == ProcessStages(input, o)
        stored   == CacheSet(got.cache, cacheKey, Image(input, o), t, size)
    IN  IF got.found
        THEN [cache |-> got.cache, outcome |-> "resolved", value |-> got.value,
              error |-> NoError, engine |-> << >>, cacheOps |-> <<"get">>,
              failedAt |-> 0]
        ELSE IF f = 0
        THEN [cache |-> stored,
              outcome |-> "resolved", value |-> Image(input, o),
              error |-> NoError, engine |-> EngineCalls(stages, Len(stages)),
              cacheOps |-> <<"get", "set">>, failedAt |-> 0]
        ELSE [cache |-> stored, outcome |-> "rejected", value |-> << >>,
              error |-> ProcessCatch(WatermarkCatch(stages, f)),
              engine |-> EngineCalls(stages, f), cacheOps |-> <<"get", "set">>,
              failedAt |-> f]

\* One call of process on the cache c at time t, the engine failing at stage f.
Process(c, t, size, age, input, o, f) ==
    LET cacheKey == ProcessCacheKey(input, o)
        got      == CacheGet(c, cacheKey, t, age)
        stages   == ProcessStages(input, o)
    IN  IF got.found
        THEN [cache |-> got.cache, outcome |-> "resolved", value |-> got.value,
              error |-> NoError, engine |-> << >>, cacheOps |-> <<"get">>,
              failedAt |-> 0]
        ELSE IF f = 0
        THEN [cache |-> CacheSet(got.cache, cacheKey, Image(input, o), t, size),
              outcome |-> "resolved", value |-> Image(input, o),
              error |-> NoError, engine |-> EngineCalls(stages, Len(stages)),
              cacheOps |-> <<"get", "set">>, failedAt |-> 0]
        ELSE [cache |-> got.cache, outcome |-> "rejected", value |-> << >>,
              error |-> ProcessCatch(WatermarkCatch(stages, f)),
              engine |-> EngineCalls(stages, f), cacheOps |-> <<"get">>,
              failedAt |-> f]

(***************************************************************************)
(* The process specification: calls of Sharpify.process made one after the *)
(* other on the class's cache, new ImageCache(), while the clock advances. *)
(***************************************************************************)
DefaultMaxSize == 100
DefaultMaxAge  == 3600000

MaxCalls == 2      \* process is called at most MaxCalls times
MaxTicks == 2      \* the clock advances at most MaxTicks times, by maxAge each time

Inputs == {<< >>, <<1>>}

Bags ==
    { << >>,
      << <<"width", Num(800)>>, <<"format", Str("webp")>> >>,
      << <<"format", Str("webp")>>, <<"width", Num(800)>> >>,
      << <<"watermark", Obj("text")>> >> }

Init ==
    /\ cache = << >>
    /\ now = 0
    /\ maxSize = DefaultMaxSize
    /\ maxAge = DefaultMaxAge
    /\ calls = << >>
    /\ lastOp = [op |-> "new"] /\ dead = {}
    /\ keyArgs = << >> /\ keyOut = << >>
    /\ plan = [built |-> "none"] /\ mark = [built |-> "none"] /\ probe = [op |-> "none"]
    /\ scheduler = "none" /\ queue = << >> /\ isProcessing = FALSE
    /\ items = << >> /\ batch = [state |-> "none"]
    /\ overlap = [state |-> "none"]

ProcessCall(input, o, f) ==
    LET r == Process(cache, now, maxSize, maxAge, input, o, f)
    IN  /\ Len(calls) < MaxCalls
        /\ cache' = r.cache
        /\ calls' = Append(calls,
               [input |-> input, options |-> o, at |-> now, before |-> cache,
                after |-> r.cache,
                outcome |-> r.outcome, value |-> r.value, error |-> r.error,
                engine |-> r.engine, cacheOps |-> r.cacheOps, failedAt |-> r.failedAt])
        /\ UNCHANGED <<now, maxSize, maxAge, histVars, keyVars, fnVars, batchVars>>

\* Only the time that passes between two calls is observable, so the clock is
\* advanced after the first call and before the last one.
Advance ==
    /\ calls # << >>
    /\ Len(calls) < MaxCalls
    /\ now < MaxTicks * maxAge
    /\ now' = now + maxAge
    /\ UNCHANGED <<cache, maxSize, maxAge, histVars, keyVars, fnVars, calls, batchVars>>

Next ==
    \/ \E input \in Inputs, o \in Bags :
           \E f \in FailPoints(ProcessStages(input, o)) : ProcessCall(input, o, f)
    \/ Advance

Spec == Init /\ [][Next]_vars

(***************************************************************************)
(* Claims about Sharpify.process, checked under Spec.                      *)
(***************************************************************************)
\* C1: a second call of process, made after a first call that ran the engine has
\* completed and within maxAge of it, with the same input bytes and an option bag
\* of the same fields and values in any insertion order, is a cache hit: it makes
\* no engine call and returns the result of the first call.
C1_SecondCallIsCacheHit ==
    \A i \in 1..(Len(calls) - 1) :
        (/\ calls[i].outcome = "resolved"
         /\ calls[i].engine # << >>
         /\ calls[i + 1].input = calls[i].input
         /\ SameFields(calls[i + 1].options, calls[i].options)
         /\ calls[i + 1].at - calls[i].at <= maxAge)
        => /\ calls[i + 1].outcome = "resolved"
           /\ calls[i + 1].engine = << >>
           /\ calls[i + 1].value = calls[i].value

\* C9: process on an empty buffer is rejected with an error tagged "process",
\* raised before any engine call and without reading or changing the cache.
C9_EmptyInputFailsBeforeEngineAndCache ==
    \A i \in 1..Len(calls) :
        Len(calls[i].input) = 0
        => /\ calls[i].outcome = "rejected"
           /\ calls[i].error.name = "ImageProcessingError"
           /\ calls[i].error.operation = "process"
           /\ calls[i].engine = << >>
           /\ calls[i].cacheOps = << >>

\* The error the failing stage of a call raised.
RaisedBy(call) ==
    [name |-> "Error",
     message |-> ProcessStages(call.input, call.options)[call.failedAt].kind,
     index |-> call.failedAt]

InsideAddWatermark(call) ==
    ProcessStages(call.input, call.options)[call.failedAt].catcher = "addWatermark"

\* C10 as stated: every failure of process, whichever stage raised it, rejects
\* with one ImageProcessingError 'Failed to process image' tagged 'process' whose
\* originalError is the error the failing stage raised.
C10_OriginalErrorIsStageError ==
    \A i \in 1..Len(calls) :
        calls[i].failedAt # 0
        => /\ calls[i].outcome = "rejected"
           /\ calls[i].error.name = "ImageProcessingError"
           /\ calls[i].error.message = "Failed to process image"
           /\ calls[i].error.operation = "process"
           /\ calls[i].error.originalError = RaisedBy(calls[i])

\* C10 amended: every failure of process rejects with an ImageProcessingError
\* 'Failed to process image' tagged 'process'; its originalError is the error the
\* failing stage raised, except for a failure inside the try block of
\* addWatermark, where it is the ImageProcessingError 'Failed to add watermark to
\* image' tagged 'addWatermark' whose originalError is the stage's error.  No
\* failure resolves the call, and only a failure rejects it.
C10_FailureIsWrappedByProcess ==
    \A i \in 1..Len(calls) :
        /\ calls[i].failedAt # 0 <=> calls[i].outcome = "rejected"
        /\ calls[i].failedAt # 0
           => /\ calls[i].error.name = "ImageProcessingError"
              /\ calls[i].error.message = "Failed to process image"
              /\ calls[i].error.operation = "process"
              /\ IF InsideAddWatermark(calls[i])
                 THEN calls[i].error.originalError =
                          [name |-> "ImageProcessingError",
                           message |-> "Failed to add watermark to image",
                           originalError |-> RaisedBy(calls[i]),
                           operation |-> "addWatermark"]
                 ELSE calls[i].error.originalError = RaisedBy(calls[i])

\* Both kinds of failure have happened: one inside addWatermark (the composite)
\* and one outside it.
C10_Witness ==
    /\ \E i \in 1..Len(calls) :
           /\ calls[i].failedAt # 0
           /\ InsideAddWatermark(calls[i])
           /\ RaisedBy(calls[i]).message = "composite"
    /\ \E i \in 1..Len(calls) :
           /\ calls[i].failedAt # 0
           /\ ~InsideAddWatermark(calls[i])
           /\ RaisedBy(calls[i]).message = "toFormat"

\* C1, same insertion order only (not a claim of the list; the part of C1 the
\* code keeps).
SameOrderSecondCallIsCacheHit ==
    \A i \in 1..(Len(calls) - 1) :
        (/\ calls[i].outcome = "resolved"
         /\ calls[i].engine # << >>
         /\ calls[i + 1].input = calls[i].input
         /\ calls[i + 1].options = calls[i].options
         /\ calls[i + 1].at - calls[i].at <= maxAge)
        => /\ calls[i + 1].outcome = "resolved"
           /\ calls[i + 1].engine = << >>
           /\ calls[i + 1].value = calls[i].value

(***************************************************************************)
(* batchProcess.                                                           *)
(*                                                                         *)
(*   "promiseAll"  ImageProcessor.ts, avatar.ts:                           *)
(*                 Promise.all(inputs.map(input => process(input, options)))*)
(*   "queue"       part_002: Promise.all(inputs.map(queueProcess)), the    *)
(*                 items drained one at a time by processQueue             *)
(*                                                                         *)
(* A run of process touches the shared state before its first await (the   *)
(* cache lookup) and after its last one (the cache store); the awaits in   *)
(* between are one step here, the completion of the run.  The reactions of *)
(* a settled promise run as microtasks, before any other completion, so    *)
(* they belong to the step that settles it.                                *)
(***************************************************************************)
MaxItems == 3      \* a batch holds at most MaxItems inputs

\* Two buffers that share their first 24 bytes (32 base64 characters), a short
\* one and the empty one.
Header == [i \in 1..24 |-> 137]

BatchInputs == {<< >>, <<7>>, Header \o <<1>>, Header \o <<2>>}

BatchBags == { << <<"width", Num(800)>> >> }

RECURSIVE SeqsUpTo(_, _)
SeqsUpTo(S, n) ==
    IF n = 0 THEN {<< >>}
    ELSE LET shorter == SeqsUpTo(S, n - 1)
         IN  shorter \cup {Append(q, x) : q \in {r \in shorter : Len(r) = n - 1}, x \in S}

\* The error the engine raises in the run of item i.
RunError(kind, i) == [name |-> "Error", message |-> kind, item |-> i]

\* part_002 validateInput: throws on an empty Buffer.
validateInput(input) ==
    IF Len(input) = 0
    THEN ImageProcessingError("Empty buffer provided", NoError, "undefined")
    ELSE NoError

\* part_002 safeExecute: catch (error) { throw new ImageProcessingError(
\* `Failed to ${operation}`, error, operation) }, called with 'process image'.
safeExecute(operation, error) ==
    ImageProcessingError(
        IF operation = "process image" THEN "Failed to process image" ELSE "Failed to ...",
        error, operation)

BatchKey(sched, input, o) ==
    IF sched = "queue" THEN getCacheKey(input, o) ELSE ProcessCacheKey(input, o)

\* What the catch of process makes of an error, in each version.
BatchCatch(sched, error) ==
    IF sched = "queue" THEN safeExecute("process image", error) ELSE ProcessCatch(error)

NewItem(input) ==
    [input |-> input, run |-> "queued", fate |-> "none", payload |-> NoError,
     handle |-> "pending", received |-> NoError]

\* process up to its first await.  The run of part_002 settles no earlier than a
\* microtask later (await func() in safeExecute), so there even a cache hit or an
\* invalid input leaves the item in flight; in ImageProcessor.ts a cache hit
\* returns, and sharp(input) throws on an empty buffer, before any await.
StartRun(sched, c, t, age, i, it, o) ==
    IF sched = "queue" /\ validateInput(it.input) # NoError
    THEN [cache |-> c,
          item |-> [it EXCEPT !.run = "running", !.fate = "invalid",
                              !.payload = BatchCatch(sched, validateInput(it.input))]]
    ELSE LET got == CacheGet(c, BatchKey(sched, it.input, o), t, age)
         IN  IF got.found
             THEN [cache |-> got.cache,
                   item |-> [it EXCEPT !.run = IF sched = "queue" THEN "running" ELSE "resolved",
                                       !.fate = "hit", !.payload = got.value]]
             ELSE IF Len(it.input) = 0
             THEN [cache |-> got.cache,
                   item |-> [it EXCEPT !.run = "rejected", !.fate = "engine",
                                       !.payload = BatchCatch(sched, RunError("sharp", i))]]
             ELSE [cache |-> got.cache,
                   item |-> [it EXCEPT !.run = "running", !.fate = "engine"]]

\* The end of a run: a hit returns the cached image, an invalid input throws, an
\* engine run stores and returns its image or throws the engine's error.
FinishRun(sched, c, t, size, i, it, o, ok) ==
    CASE it.fate = "hit" ->
             [cache |-> c, item |-> [it EXCEPT !.run = "resolved"]]
      [] it.fate = "invalid" ->
             [cache |-> c, item |-> [it EXCEPT !.run = "rejected"]]
      [] OTHER ->
             IF ok
             THEN [cache |-> CacheSet(c, BatchKey(sched, it.input, o), Image(it.input, o), t, size),
                   item |-> [it EXCEPT !.run = "resolved", !.payload = Image(it.input, o)]]
             ELSE [cache |-> c,
                   item |-> [it EXCEPT !.run = "rejected",
                                       !.payload = BatchCatch(sched, RunError("toBuffer", i))]]

\* The completion handle of an item: the promise of process itself in
\* ImageProcessor.ts; in part_002 the promise of queueProcess, which processQueue
\* settles with resolve(result) or reject(error).
SettleHandle(it) ==
    IF it.run \in {"resolved", "rejected"}
    THEN [it EXCEPT !.handle = it.run, !.received = it.payload]
    ELSE it

\* Promise.all: a fulfilled element is stored at its own index, the promise
\* resolves when every element is stored and rejects with the first rejection.
PromiseAllStoresInArrivalOrder(b, i, v) ==
    IF b.state # "pending" THEN b
    ELSE LET filled == b.filled \cup {i}
         IN  [b EXCEPT !.values[Cardinality(filled)] = v,
                       !.filled = filled,
                       !.state = IF Cardinality(filled) = Len(b.values)
                                 THEN "resolved" ELSE "pending"]

PromiseAllFulfil(b, i, v) ==
    IF b.state # "pending" THEN b
    ELSE LET filled == b.filled \cup {i}
         IN  [b EXCEPT !.values[i] = v,
                       !.filled = filled,
                       !.state = IF Cardinality(filled) = Len(b.values)
                                 THEN "resolved" ELSE "pending"]

\* A Promise.all that takes the reason of every rejection, so that the last one
\* stays.
PromiseAllRejectKeepsLast(b, e) ==
    IF b.state = "resolved" THEN b ELSE [b EXCEPT !.state = "rejected", !.error = e]

PromiseAllReject(b, e) ==
    IF b.state # "pending" THEN b ELSE [b EXCEPT !.state = "rejected", !.error = e]

PromiseAll(n, inputs, o) ==
    [state |-> IF n = 0 THEN "resolved" ELSE "pending",
     values |-> [i \in 1..n |-> NoError], filled |-> {}, error |-> NoError,
     inputs |-> inputs, options |-> o]

\* The reaction of Promise.all to the handle of item i.
React(b, i, it) ==
    CASE it.handle = "resolved" -> PromiseAllFulfil(b, i, it.received)
      [] it.handle = "rejected" -> PromiseAllReject(b, it.received)
      [] OTHER -> b

RECURSIVE ReactAll(_, _, _)
ReactAll(b, its, i) ==
    IF i > Len(its) THEN b ELSE ReactAll(React(b, i, its[i]), its, i + 1)

\* inputs.map(input => this.process(input, options)): every run is started, in
\* index order, before any of them completes.
RECURSIVE StartAll(_, _, _, _, _, _)
StartAll(c, t, age, its, o, i) ==
    IF i > Len(its) THEN [cache |-> c, items |-> its]
    ELSE LET r == StartRun("promiseAll", c, t, age, i, its[i], o)
         IN  StartAll(r.cache, t, age, [its EXCEPT ![i] = SettleHandle(r.item)], o, i + 1)

\* A processQueue that takes the item pushed last (pop) instead of the one pushed
\* first (shift).
processQueueTakesLast(q, busy, its, c, t, age, o) ==
    IF busy \/ Len(q) = 0
    THEN [queue |-> q, isProcessing |-> busy, items |-> its, cache |-> c]
    ELSE LET last == q[Len(q)]
             r    == StartRun("queue", c, t, age, last, its[last], o)
         IN  [queue |-> SubSeq(q, 1, Len(q) - 1), isProcessing |-> TRUE,
              items |-> [its EXCEPT ![last] = r.item], cache |-> r.cache]

\* A processQueue that starts the next item without looking at isProcessing.
processQueueIgnoresFlag(q, busy, its, c, t, age, o) ==
    IF Len(q) = 0
    THEN [queue |-> q, isProcessing |-> busy, items |-> its, cache |-> c]
    ELSE LET r == StartRun("queue", c, t, age, Head(q), its[Head(q)], o)
         IN  [queue |-> Tail(q), isProcessing |-> TRUE,
              items |-> [its EXCEPT ![Head(q)] = r.item], cache |-> r.cache]

\* part_002 processQueue, up to the await of process.
processQueue(q, busy, its, c, t, age, o) ==
    IF busy \/ Len(q) = 0
    THEN [queue |-> q, isProcessing |-> busy, items |-> its, cache |-> c]
    ELSE LET r == StartRun("queue", c, t, age, Head(q), its[Head(q)], o)
         IN  [queue |-> Tail(q), isProcessing |-> TRUE,
              items |-> [its EXCEPT ![Head(q)] = r.item], cache |-> r.cache]

\* A processQueue without the finally block: isProcessing stays set, so the
\* call of processQueue that follows returns at once.
AfterRunLeavesFlagSet(q, its, i, c, t, age, o) == processQueue(q, TRUE, its, c, t, age, o)

\* A processQueue whose continuation takes the next item only after a success.
AfterRunStopsOnFailure(q, its, i, c, t, age, o) ==
    IF its[i].run = "rejected"
    THEN [queue |-> q, isProcessing |-> TRUE, items |-> its, cache |-> c]
    ELSE processQueue(q, FALSE, its, c, t, age, o)

\* part_002 processQueue after the await: resolve or reject was called on the
\* item's handle; finally { isProcessing = false; processQueue() }.
AfterRun(q, its, i, c, t, age, o) == processQueue(q, FALSE, its, c, t, age, o)

\* The catch block of batchProcess (ImageProcessor.ts, avatar.ts).
BatchProcessCatch(error) ==
    ImageProcessingError("Batch image processing failed", error, "batchProcess")

\* The promise the caller of batchProcess holds.  ImageProcessor.ts and avatar.ts:
\* try { ...; return Promise.all(promises) } catch (error) { throw ... }: the try
\* block throws nothing itself (process is async, so map and Promise.all return
\* normally) and returns the promise without await, so the async function is
\* settled as Promise.all is and its catch block is passed by.  part_002 has no
\* try block: return Promise.all(...).
batchProcess(sched, b) ==
    LET thrown == NoError
    IN  IF sched = "promiseAll" /\ thrown # NoError
        THEN [b EXCEPT !.state = "rejected", !.error = BatchProcessCatch(thrown)]
        ELSE b

InitBatch ==
    /\ scheduler \in {"promiseAll", "queue"}
    /\ queue = << >>
    /\ isProcessing = FALSE
    /\ items = << >>
    /\ batch = [state |-> "none"]
    /\ overlap = [state |-> "none"]
    /\ cache = << >>
    /\ now = 0
    /\ maxSize = DefaultMaxSize
    /\ maxAge = DefaultMaxAge
    /\ calls = << >>
    /\ lastOp = [op |-> "new"] /\ dead = {}
    /\ keyArgs = << >> /\ keyOut = << >>
    /\ plan = [built |-> "none"] /\ mark = [built |-> "none"] /\ probe = [op |-> "none"]

\* ImageProcessor.ts batchProcess(inputs, options)
BatchProcessAll(inputs, o) ==
    LET its == [i \in 1..Len(inputs) |-> NewItem(inputs[i])]
        r   == StartAll(cache, now, maxAge, its, o, 1)
    IN  /\ scheduler = "promiseAll"
        /\ batch.state = "none"
        /\ items' = r.items
        /\ cache' = r.cache
        /\ batch' = ReactAll(PromiseAll(Len(inputs), inputs, o), r.items, 1)
        /\ UNCHANGED <<scheduler, queue, isProcessing, overlap, now, maxSize, maxAge,
                       histVars, keyVars, fnVars, calls>>

\* part_002 queueProcess for the inputs from index i on, in index order:
\* this.queue.push({ input, options, resolve, reject }); this.processQueue()
RECURSIVE QueueAll(_, _, _, _, _)
QueueAll(st, t, age, o, i) ==
    IF i > Len(st.items) THEN st
    ELSE QueueAll(processQueue(Append(st.queue, i), st.isProcessing, st.items,
                               st.cache, t, age, o),
                  t, age, o, i + 1)

\* part_002 batchProcess(inputs, options)
BatchProcessQueued(inputs, o) ==
    LET its == [i \in 1..Len(inputs) |-> NewItem(inputs[i])]
        r   == QueueAll([queue |-> queue, isProcessing |-> isProcessing,
                         items |-> its, cache |-> cache], now, maxAge, o, 1)
    IN  /\ scheduler = "queue"
        /\ batch.state = "none"
        /\ items' = r.items
        /\ queue' = r.queue
        /\ isProcessing' = r.isProcessing
        /\ cache' = r.cache
        /\ batch' = PromiseAll(Len(inputs), inputs, o)
        /\ UNCHANGED <<scheduler, overlap, now, maxSize, maxAge, histVars, keyVars, fnVars,
                       calls>>

\* The run of item i completes, the engine having succeeded (ok) or failed.
ItemCompletes(i, ok) ==
    LET f   == FinishRun(scheduler, cache, now, maxSize, i, items[i], batch.options, ok)
        it  == SettleHandle(f.item)
        its == [items EXCEPT ![i] = it]
        r   == IF scheduler = "queue"
               THEN AfterRun(queue, its, i, f.cache, now, maxAge, batch.options)
               ELSE [queue |-> queue, isProcessing |-> isProcessing,
                     items |-> its, cache |-> f.cache]
    IN  /\ batch.state # "none"
        /\ i \in 1..Len(items)
        /\ items[i].run = "running"
        /\ items[i].fate = "hit" => ok
        /\ items[i].fate = "invalid" => ~ok
        /\ items' = r.items
        /\ queue' = r.queue
        /\ isProcessing' = r.isProcessing
        /\ cache' = r.cache
        /\ batch' = IF i <= Len(batch.inputs) THEN React(batch, i, it) ELSE batch
        /\ overlap' = IF overlap.state # "none" /\ i > overlap.offset
                      THEN React(overlap, i - overlap.offset, it)
                      ELSE overlap
        /\ UNCHANGED <<scheduler, now, maxSize, maxAge, histVars, keyVars, fnVars, calls>>

NextBatch ==
    \/ \E inputs \in SeqsUpTo(BatchInputs, MaxItems), o \in BatchBags :
           BatchProcessAll(inputs, o)
    \/ \E inputs \in SeqsUpTo(BatchInputs, MaxItems), o \in BatchBags :
           BatchProcessQueued(inputs, o)
    \/ \E i \in 1..MaxItems, ok \in BOOLEAN : ItemCompletes(i, ok)

SpecBatch == InitBatch /\ [][NextBatch]_vars

(***************************************************************************)
(* Claims about batchProcess, checked under SpecBatch.                     *)
(***************************************************************************)
Running == {i \in 1..Len(items) : items[i].run = "running"}

Unsettled == {i \in 1..Len(items) : items[i].run \in {"queued", "running"}}

Range(q) == {q[i] : i \in 1..Len(q)}

\* C6: when every item succeeds, batchProcess resolves to an array as long as
\* inputs whose i-th element is what process returned for inputs[i]: the image the
\* cache key of inputs[i] stands for, which in ImageProcessor.ts is the image made
\* from inputs[i] itself; in whatever order the items completed.
C6_BatchKeepsInputOrder ==
    batch.state = "resolved"
    => /\ Len(batch.values) = Len(batch.inputs)
       /\ \A i \in 1..Len(batch.inputs) :
              /\ items[i].input = batch.inputs[i]
              /\ items[i].run = "resolved"
              /\ batch.values[i] = items[i].payload
              /\ batch.values[i].steps = Image(batch.inputs[i], batch.options).steps
              /\ BatchKey(scheduler, batch.values[i].src, batch.options)
                     = BatchKey(scheduler, batch.inputs[i], batch.options)
              /\ scheduler = "promiseAll"
                     => batch.values[i] = Image(batch.inputs[i], batch.options)

\* A batch of three different buffers has resolved.
C6_Witness ==
    /\ batch.state = "resolved"
    /\ Len(batch.inputs) >= 3
    /\ batch.inputs[1] # batch.inputs[2]
    /\ batch.inputs[2] # batch.inputs[3]
    /\ batch.inputs[1] # batch.inputs[3]

OwnErrors(j) ==
    {RunError("sharp", j), RunError("toBuffer", j), validateInput(items[j].input)}

\* C8: once an item has failed, every other item is settled, in flight, or queued
\* behind an item in flight whose completion starts the next one; and the
\* completion handle of every settled item received that item's own outcome.
C8_FailureDoesNotBlockOthers ==
    \A i \in 1..Len(items) :
        items[i].run = "rejected"
        => \A j \in 1..Len(items) :
              /\ items[j].run = "queued" => (j \in Range(queue) /\ Running # {})
              /\ items[j].run = "running" => items[j].handle = "pending"
              /\ items[j].run = "resolved"
                     => /\ items[j].handle = "resolved"
                        /\ items[j].received = items[j].payload
                        /\ BatchKey(scheduler, items[j].received.src, batch.options)
                               = BatchKey(scheduler, items[j].input, batch.options)
              /\ items[j].run = "rejected"
                     => /\ items[j].handle = "rejected"
                        /\ items[j].received.name = "ImageProcessingError"
                        /\ items[j].received.originalError \in OwnErrors(j)

\* In the queue-based scheduler an item was started and has run to its end after
\* an earlier item failed.
C8_Witness ==
    \E i, j \in 1..Len(items) :
        /\ i < j
        /\ scheduler = "queue"
        /\ items[i].run = "rejected"
        /\ items[i].received.originalError = RunError("toBuffer", i)
        /\ items[j].run = "resolved"

\* C11: when batchProcess fails because one of its items fails, the error the
\* caller receives is an ImageProcessingError tagged 'batchProcess' whose cause is
\* the error of that item.
C11_BatchFailureIsWrappedByBatchProcess ==
    batch.state = "rejected"
    => LET e == batchProcess(scheduler, batch).error
       IN  /\ e.name = "ImageProcessingError"
           /\ e.operation = "batchProcess"
           /\ \E i \in 1..Len(items) :
                  items[i].handle = "rejected" /\ e.originalError = items[i].received

(***************************************************************************)
(* The steps process chains on the engine, in each version of the source:  *)
(*                                                                         *)
(*   "ImageProcessor"  src/src/ImageProcessor.ts                           *)
(*   "queue"           part_002, lines 69-172 (the queue-based class)      *)
(*   "aspectRatio"     part_002, lines 263-403 (applyProcessingOptions)    *)
(***************************************************************************)
\* part_002, queue-based process: the transforms before the watermark.
QueueTransformSteps(o) ==
    When(Truthy(Opt(o, "width")) \/ Truthy(Opt(o, "height")),
         Step("resize", <<Opt(o, "width"), Opt(o, "height")>>))
    \o When(Truthy(Opt(o, "blur")), Step("blur", <<Opt(o, "blur")>>))
    \o When(Truthy(Opt(o, "sharpen")), Step("sharpen", << >>))
    \o When(Truthy(Opt(o, "grayscale")), Step("grayscale", << >>))
    \o When(Truthy(Opt(o, "rotate")), Step("rotate", <<Opt(o, "rotate")>>))
    \o When(Truthy(Opt(o, "flip")), Step("flip", << >>))
    \o When(Truthy(Opt(o, "flop")), Step("flop", << >>))
    \o When(Truthy(Opt(o, "tint")), Step("tint", <<Opt(o, "tint")>>))
    \o When(Truthy(Opt(o, "brightness")) \/ Truthy(Opt(o, "saturation")),
            Step("modulate", <<Opt(o, "brightness"), Opt(o, "saturation")>>))
    \o When(Truthy(Opt(o, "contrast")),
            Step("linear", <<Opt(o, "contrast"), Num(-(Opt(o, "contrast").n - 1) * 128)>>))

\* Math.round(w / a) for integers w >= 0 and a > 0: the nearest integer, a half
\* rounded up.
MathRoundOfQuotient(w, a) == (2 * w + a) \div (2 * a)

\* A resize that takes the height as given, whatever the aspect ratio.
ResizeIgnoresAspectRatio(o) ==
    When(Truthy(Opt(o, "width")) \/ Truthy(Opt(o, "height")),
         Step("resize", <<Opt(o, "width"), Opt(o, "height")>>))

\* part_002 applyProcessingOptions, the resize.
ResizeSteps(o) ==
    IF Truthy(Opt(o, "aspectRatio")) /\ Truthy(Opt(o, "width"))
    THEN <<Step("resize",
                <<Opt(o, "width"),
                  Num(MathRoundOfQuotient(Opt(o, "width").n, Opt(o, "aspectRatio").n))>>)>>
    ELSE When(Truthy(Opt(o, "width")) \/ Truthy(Opt(o, "height")),
              Step("resize", <<Opt(o, "width"), Opt(o, "height")>>))

\* part_002 applyProcessingOptions: after the resize it chains what
\* ImageProcessor.ts chains, in the same order.
applyProcessingOptions(o) ==
    ResizeSteps(o)
    \o SelectSeq(TransformSteps(o), LAMBDA st : st.kind # "resize")

\* part_002, both versions: toFormat(options.format, { quality: options.quality })
FormatStepsRawQuality(o) ==
    When(Truthy(Opt(o, "format")),
         Step("toFormat", <<Opt(o, "format"), Opt(o, "quality")>>))

\* The text overlay: composite([{ input: Buffer.from(svg), top: 0, left: 0 }])
OverlaySteps(o) ==
    When(Truthy(Opt(o, "watermark")), Step("composite", <<Opt(o, "watermark")>>))

\* part_002, queue-based process: the circular mask,
\* composite([{ input: circleMask, blend: 'dest-in' }])
RadiusSteps(o) ==
    When(Truthy(Opt(o, "radius")), Step("composite", <<Str("circleMask")>>))

Versions == {"ImageProcessor", "queue", "aspectRatio"}

\* The transform, overlay and encode steps one run of process issues for the bag o.
PipelineSteps(version, o) ==
    CASE version = "ImageProcessor" ->
             TransformSteps(o) \o OverlaySteps(o) \o FormatSteps(o)
      [] version = "queue" ->
             QueueTransformSteps(o) \o OverlaySteps(o) \o RadiusSteps(o)
             \o FormatStepsRawQuality(o)
      [] version = "aspectRatio" ->
             applyProcessingOptions(o) \o OverlaySteps(o) \o FormatStepsRawQuality(o)

(***************************************************************************)
(* The plan specification: an option bag is drawn, and one version of      *)
(* process composes its pipeline for it.                                   *)
(***************************************************************************)
SizeParts ==
    { << >>,
      << <<"width", Num(800)>> >>,
      << <<"height", Num(600)>> >>,
      << <<"width", Num(800)>>, <<"height", Num(600)>> >>,
      << <<"aspectRatio", Num(3)>> >>,
      << <<"aspectRatio", Num(3)>>, <<"height", Num(600)>> >>,
      << <<"aspectRatio", Num(3)>>, <<"width", Num(800)>> >>,
      << <<"aspectRatio", Num(2)>>, <<"width", Num(7)>>, <<"height", Num(600)>> >>,
      << <<"aspectRatio", Num(2)>>, <<"width", Num(800)>>, <<"height", Num(600)>> >> }

EffectParts ==
    { << >>,
      << <<"contrast", Num(2)>> >>,
      << <<"blur", Num(0)>>, <<"brightness", Num(0)>>, <<"contrast", Num(0)>> >>,
      << <<"rotate", Num(90)>>, <<"tint", Str("red")>> >>,
      << <<"brightness", Num(2)>>, <<"flop", Bool(TRUE)>> >>,
      << <<"crop", Obj("rect")>>, <<"blur", Num(5)>>, <<"sharpen", Bool(TRUE)>>,
         <<"grayscale", Bool(TRUE)>>, <<"tint", Str("red")>>, <<"brightness", Num(2)>>,
         <<"saturation", Num(3)>>, <<"contrast", Num(2)>>, <<"rotate", Num(90)>>,
         <<"flip", Bool(TRUE)>>, <<"flop", Bool(TRUE)>> >> }

OverlayParts ==
    { << >>,
      << <<"watermark", Obj("text")>> >>,
      << <<"radius", Num(50)>> >>,
      << <<"watermark", Obj("text")>>, <<"radius", Num(50)>> >> }

EncodeParts ==
    { << >>,
      << <<"quality", Num(90)>> >>,
      << <<"format", Str("webp")>> >>,
      << <<"format", Str("webp")>>, <<"quality", Num(90)>> >>,
      << <<"format", Str("webp")>>, <<"quality", Num(0)>> >>,
      << <<"format", Str("webp")>>, <<"quality", Num(-5)>> >>,
      << <<"format", Str("webp")>>, <<"quality", Num(150)>> >> }

PlanBags ==
    {a \o b \o c \o d : a \in SizeParts, b \in EffectParts, c \in OverlayParts, d \in EncodeParts}

InitPlan ==
    /\ plan \in {[built |-> "none", options |-> o] : o \in PlanBags}
    /\ mark = [built |-> "none"] /\ probe = [op |-> "none"]
    /\ cache = << >> /\ now = 0
    /\ maxSize = DefaultMaxSize /\ maxAge = DefaultMaxAge
    /\ calls = << >>
    /\ lastOp = [op |-> "new"] /\ dead = {}
    /\ keyArgs = << >> /\ keyOut = << >>
    /\ scheduler = "none" /\ queue = << >> /\ isProcessing = FALSE
    /\ items = << >> /\ batch = [state |-> "none"]
    /\ overlap = [state |-> "none"]

Compose(version) ==
    /\ plan.built = "none"
    /\ plan' = [built |-> version, options |-> plan.options,
                steps |-> PipelineSteps(version, plan.options)]
    /\ UNCHANGED <<mark, probe, cacheVars, histVars, keyVars, calls, batchVars>>

\* ImageProcessor.ts process
ComposeProcess == Compose("ImageProcessor")

\* part_002, queue-based process
ComposeQueueProcess == Compose("queue")

\* part_002, process with applyProcessingOptions
ComposeAspectProcess == Compose("aspectRatio")

NextPlan == ComposeProcess \/ ComposeQueueProcess \/ ComposeAspectProcess

SpecPlan == InitPlan /\ [][NextPlan]_vars

(***************************************************************************)
(* Claims about the pipeline, checked under SpecPlan.                      *)
(***************************************************************************)
\* The fixed order of the steps, by the engine's names: crop is extract, linear
\* contrast is linear, overlay compositing is composite, encode is toFormat.
FixedOrder ==
    <<"resize", "extract", "blur", "sharpen", "grayscale", "tint", "modulate",
      "linear", "rotate", "flip", "flop", "composite", "toFormat">>

Rank(kind) == CHOOSE r \in 1..Len(FixedOrder) : FixedOrder[r] = kind

\* C12: for every option bag, the steps process issues form a subsequence of the
\* fixed order resize, crop, blur, sharpen, grayscale, tint, modulate, linear
\* contrast, rotate, flip, flop, overlay compositing, encode; each step is issued
\* at most once, and encode, when present, is the last step.
C12_StepsFollowFixedOrder ==
    plan.built # "none"
    => /\ \A i \in 1..Len(plan.steps) : \E r \in 1..Len(FixedOrder) :
              FixedOrder[r] = plan.steps[i].kind
       /\ \A i, j \in 1..Len(plan.steps) :
              i < j => Rank(plan.steps[i].kind) < Rank(plan.steps[j].kind)
       /\ \A i \in 1..Len(plan.steps) :
              plan.steps[i].kind = "toFormat" => i = Len(plan.steps)

\* The same statement for the two versions that keep the order of the claim.
StepsFollowFixedOrderOutsideQueue ==
    plan.built \in {"ImageProcessor", "aspectRatio"}
    => /\ \A i, j \in 1..Len(plan.steps) :
              i < j => Rank(plan.steps[i].kind) < Rank(plan.steps[j].kind)
       /\ \A i \in 1..Len(plan.steps) :
              plan.steps[i].kind = "toFormat" => i = Len(plan.steps)

(***************************************************************************)
(* The placement of the text overlay:                                      *)
(*                                                                         *)
(*   "ImageProcessor"  src/src/ImageProcessor.ts, lines 210-273            *)
(*   "part_001"        src/unnamed/part_001, lines 204-303                 *)
(*                                                                         *)
(* Lengths are JavaScript numbers; they are kept exact here by counting in *)
(* twentieths of a pixel, the unit in which n / 2, n / 4 and n * 0.6 are   *)
(* integers for every integer n.                                           *)
(***************************************************************************)
Px(n) == 20 * n

\* position.includes(word), the position being the sequence of its words.
Includes(position, word) == \E i \in 1..Len(position) : position[i] = word

\* A calculator that tests 'left'/'right' for the vertical coordinate too.
getWatermarkPositionByColumn(imageWidth, imageHeight, textWidth, fontSize, position, padding) ==
    LET effectivePadding == Px(padding) + Px(fontSize) \div 4
    IN  [x |-> IF Includes(position, "left") THEN textWidth \div 2 + effectivePadding
               ELSE IF Includes(position, "right")
                    THEN Px(imageWidth) - textWidth \div 2 - effectivePadding
                    ELSE Px(imageWidth) \div 2,
         y |-> IF Includes(position, "left") THEN Px(fontSize) + effectivePadding
               ELSE IF Includes(position, "right") THEN Px(imageHeight) - effectivePadding
                    ELSE Px(imageHeight) \div 2]

\* ImageProcessor.ts getWatermarkPosition; textWidth is in twentieths of a pixel.
getWatermarkPosition(imageWidth, imageHeight, textWidth, fontSize, position, padding) ==
    LET effectivePadding == Px(padding) + Px(fontSize) \div 4
    IN  [x |-> IF Includes(position, "left") THEN textWidth \div 2 + effectivePadding
               ELSE IF Includes(position, "right")
                    THEN Px(imageWidth) - textWidth \div 2 - effectivePadding
                    ELSE Px(imageWidth) \div 2,
         y |-> IF Includes(position, "top") THEN Px(fontSize) + effectivePadding
               ELSE IF Includes(position, "bottom") THEN Px(imageHeight) - effectivePadding
                    ELSE Px(imageHeight) \div 2]

\* part_001 getWatermarkPosition.
getWatermarkPositionAtEdge(imageWidth, imageHeight, textWidth, fontSize, position, padding) ==
    [x |-> IF Includes(position, "left") THEN Px(padding)
           ELSE IF Includes(position, "right") THEN Px(imageWidth) - Px(padding)
                ELSE Px(imageWidth) \div 2,
     y |-> IF Includes(position, "top") THEN Px(padding) + Px(fontSize)
           ELSE IF Includes(position, "bottom") THEN Px(imageHeight) - Px(padding)
                ELSE Px(imageHeight) \div 2]

\* ImageProcessor.ts generateWatermarkSVG: padding = 10, the text width is
\* text.length * size / 2, and the style says text-anchor: middle.
generateWatermarkSVG(width, height, textLength, size, position) ==
    LET at == getWatermarkPosition(width, height, 10 * textLength * size, size, position, 10)
    IN  [x |-> at.x, y |-> at.y, textAnchor |-> "middle"]

\* A textAnchor that takes 'left' for the end of the text.
textAnchorMirrored(position) ==
    IF Includes(position, "left") THEN "end"
    ELSE IF Includes(position, "center") THEN "middle" ELSE "start"

\* part_001 generateWatermarkSVG, textAnchor.
textAnchor(position) ==
    IF Includes(position, "right") THEN "end"
    ELSE IF Includes(position, "center") THEN "middle" ELSE "start"

\* part_001 generateWatermarkSVG: estimatedTextWidth = text.length * (size * 0.6).
generateWatermarkSVGAtEdge(width, height, textLength, size, position, padding) ==
    LET estimatedTextWidth == 12 * textLength * size
        at == getWatermarkPositionAtEdge(width, height, estimatedTextWidth, size,
                                         position, padding)
    IN  [x |-> at.x, y |-> at.y, textAnchor |-> textAnchor(position)]

(***************************************************************************)
(* The placement specification: an image size, a text and the overlay's    *)
(* options are drawn, and one version places or renders the overlay.       *)
(***************************************************************************)
TopLeft     == <<"top", "-", "left">>
TopRight    == <<"top", "-", "right">>
BottomLeft  == <<"bottom", "-", "left">>
BottomRight == <<"bottom", "-", "right">>
Center      == <<"center">>

\* type WatermarkPosition
WatermarkPosition == {TopLeft, TopRight, BottomLeft, BottomRight, Center}

MarkArgs ==
    [imageWidth : {200, 301}, imageHeight : {200, 101}, textWidth : {40, 90},
     textLength : {3, 4}, size : {24, 10}, position : WatermarkPosition,
     padding : {10, 0}]

InitMark ==
    /\ mark \in {[built |-> "none", args |-> a] : a \in MarkArgs}
    /\ plan = [built |-> "none"] /\ probe = [op |-> "none"]
    /\ cache = << >> /\ now = 0
    /\ maxSize = DefaultMaxSize /\ maxAge = DefaultMaxAge
    /\ calls = << >>
    /\ lastOp = [op |-> "new"] /\ dead = {}
    /\ keyArgs = << >> /\ keyOut = << >>
    /\ scheduler = "none" /\ queue = << >> /\ isProcessing = FALSE
    /\ items = << >> /\ batch = [state |-> "none"]
    /\ overlap = [state |-> "none"]

Marked(built, version, out) ==
    /\ mark.built = "none"
    /\ mark' = [built |-> built, version |-> version, args |-> mark.args, out |-> out]
    /\ UNCHANGED <<plan, probe, cacheVars, histVars, keyVars, calls, batchVars>>

\* ImageProcessor.ts getWatermarkPosition(imageWidth, ..., padding)
PlaceWatermark ==
    LET a == mark.args
    IN  Marked("place", "ImageProcessor",
               getWatermarkPosition(a.imageWidth, a.imageHeight, Px(a.textWidth),
                                    a.size, a.position, a.padding))

\* part_001 getWatermarkPosition(imageWidth, ..., padding)
PlaceWatermarkAtEdge ==
    LET a == mark.args
    IN  Marked("place", "part_001",
               getWatermarkPositionAtEdge(a.imageWidth, a.imageHeight, Px(a.textWidth),
                                          a.size, a.position, a.padding))

\* ImageProcessor.ts generateWatermarkSVG(width, height, text, ..., position)
RenderWatermark ==
    LET a == mark.args
    IN  Marked("render", "ImageProcessor",
               generateWatermarkSVG(a.imageWidth, a.imageHeight, a.textLength,
                                    a.size, a.position))

\* part_001 generateWatermarkSVG(width, height, text, { ..., position, padding })
RenderWatermarkAtEdge ==
    LET a == mark.args
    IN  Marked("render", "part_001",
               generateWatermarkSVGAtEdge(a.imageWidth, a.imageHeight, a.textLength,
                                          a.size, a.position, a.padding))

NextMark ==
    PlaceWatermark \/ PlaceWatermarkAtEdge \/ RenderWatermark \/ RenderWatermarkAtEdge

SpecMark == InitMark /\ [][NextMark]_vars

(***************************************************************************)
(* Claims about the placement, checked under SpecMark.                     *)
(***************************************************************************)
TopAnchors    == {TopLeft, TopRight}
BottomAnchors == {BottomLeft, BottomRight}
LeftAnchors   == {TopLeft, BottomLeft}
RightAnchors  == {TopRight, BottomRight}

\* The point at the padded edge of the container, in twentieths of a pixel.
EdgePoint(a) ==
    [x |-> IF a.position \in LeftAnchors THEN 20 * a.padding
           ELSE IF a.position \in RightAnchors THEN 20 * (a.imageWidth - a.padding)
                ELSE 10 * a.imageWidth,
     y |-> IF a.position \in TopAnchors THEN 20 * (a.padding + a.size)
           ELSE IF a.position \in BottomAnchors THEN 20 * (a.imageHeight - a.padding)
                ELSE 10 * a.imageHeight]

\* The centre of a text of the given width whose box is inset from the edge by
\* padding + contentHeight / 4, in twentieths of a pixel.
InsetCentre(a) ==
    [x |-> IF a.position \in LeftAnchors
           THEN 10 * a.textWidth + 20 * a.padding + 5 * a.size
           ELSE IF a.position \in RightAnchors
                THEN 20 * a.imageWidth - 10 * a.textWidth - 20 * a.padding - 5 * a.size
                ELSE 10 * a.imageWidth,
     y |-> IF a.position \in TopAnchors THEN 20 * a.size + 20 * a.padding + 5 * a.size
           ELSE IF a.position \in BottomAnchors
                THEN 20 * a.imageHeight - 20 * a.padding - 5 * a.size
                ELSE 10 * a.imageHeight]

AnchorAlignment(position) ==
    IF position \in LeftAnchors THEN "start"
    ELSE IF position \in RightAnchors THEN "end" ELSE "middle"

StepsOfKind(steps, kind) == SelectSeq(steps, LAMBDA st : st.kind = kind)

\* C15: when an output format is requested, process issues an encode step with
\* the given quality, and with quality 80 when no quality is given; when no
\* format is requested, no encode step is issued.
C15_EncodeUsesGivenQualityOrDefault ==
    plan.built # "none"
    => LET encode == StepsOfKind(plan.steps, "toFormat")
       IN  IF HasField(plan.options, "format")
           THEN /\ Len(encode) = 1
                /\ encode[1].args[1] = Opt(plan.options, "format")
                /\ encode[1].args[2] = IF HasField(plan.options, "quality")
                                       THEN Opt(plan.options, "quality")
                                       ELSE Num(80)
           ELSE Len(encode) = 0

\* The same statement for ImageProcessor.ts alone, for a quality that is absent or
\* lies in 1..100.
EncodeUsesGivenQualityOrDefaultInImageProcessor ==
    /\ plan.built = "ImageProcessor"
    /\ HasField(plan.options, "quality") => Opt(plan.options, "quality").n \in 1..100
    => LET encode == StepsOfKind(plan.steps, "toFormat")
       IN  IF HasField(plan.options, "format")
           THEN /\ Len(encode) = 1
                /\ encode[1].args[2] = IF HasField(plan.options, "quality")
                                       THEN Opt(plan.options, "quality")
                                       ELSE Num(80)
           ELSE Len(encode) = 0

\* h is w / a rounded to the nearest integer, a half rounded up.
IsRounded(h, w, a) == 2 * a * h - a <= 2 * w /\ 2 * w < 2 * a * h + a

\* C16: in applyProcessingOptions, when both aspectRatio and width are given the
\* resize step uses (width, round(width / aspectRatio)) and a height given in the
\* options is ignored; otherwise the resize step uses exactly the width and/or
\* height given and is issued only if at least one of them is given.  At most
\* one resize step is issued, and it precedes the crop step.
C16_ResizeDerivesHeightFromAspectRatio ==
    plan.built = "aspectRatio"
    => LET o      == plan.options
           resize == StepsOfKind(plan.steps, "resize")
       IN  /\ IF HasField(o, "aspectRatio") /\ HasField(o, "width")
              THEN /\ Len(resize) = 1
                   /\ resize[1].args[1] = Opt(o, "width")
                   /\ resize[1].args[2].t = "num"
                   /\ IsRounded(resize[1].args[2].n, Opt(o, "width").n,
                                Opt(o, "aspectRatio").n)
              ELSE IF HasField(o, "width") \/ HasField(o, "height")
                   THEN resize = <<Step("resize", <<Opt(o, "width"), Opt(o, "height")>>)>>
                   ELSE resize = << >>
           /\ Len(resize) <= 1
           /\ \A i, j \in 1..Len(plan.steps) :
                  plan.steps[i].kind = "resize" /\ plan.steps[j].kind = "extract" => i < j

\* width 7 with aspect ratio 2 and a height of 600: 3.5 is rounded to 4, the
\* given height is dropped, and the resize comes before the crop.
C16_Witness ==
    /\ plan.built = "aspectRatio"
    /\ Opt(plan.options, "aspectRatio") = Num(2)
    /\ Opt(plan.options, "width") = Num(7)
    /\ Opt(plan.options, "height") = Num(600)
    /\ HasField(plan.options, "crop")
    /\ plan.steps[1] = Step("resize", <<Num(7), Num(4)>>)
    /\ plan.steps[2].kind = "extract"

(***************************************************************************)
(* The operations that bypass the cache: getStats, getDominantColor        *)
(* (ImageProcessor.ts) and createAvatar (avatar.ts, wrapped by             *)
(* Sharpify.createAvatar in part_002).                                     *)
(***************************************************************************)
SharpStage(input, catcher) ==
    Stage("sharp", <<Str("input")>>, catcher, IF Len(input) = 0 THEN "always" ELSE "never")

\* await sharp(input).metadata()
getStatsStages(input) ==
    <<SharpStage(input, "getStats"), Stage("metadata", << >>, "getStats", "may")>>

\* await sharp(input).stats()
getDominantColorStages(input) ==
    <<SharpStage(input, "getDominantColor"),
      Stage("stats", << >>, "getDominantColor", "may")>>

\* avatar.ts: size = options.size || 100; sharp(input).resize(size, size)
\* .composite([{ input: roundedCorners, blend: 'dest-in' }])
\* .png({ quality: 100, compressionLevel: 9 }); toBuffer; sharp(data).metadata()
createAvatarStages(input, o) ==
    LET size == IF Truthy(Opt(o, "size")) THEN Opt(o, "size") ELSE Num(100)
    IN  <<SharpStage(input, "createAvatar"),
          Stage("resize", <<size, size>>, "createAvatar", "never"),
          Stage("composite", <<Str("roundedCorners")>>, "createAvatar", "never"),
          Stage("png", <<Num(100), Num(9)>>, "createAvatar", "never"),
          Stage("toBuffer", <<Str("resolveWithObject")>>, "createAvatar", "may"),
          Stage("sharp", <<Str("data")>>, "createAvatar", "never"),
          Stage("metadata", << >>, "createAvatar", "may")>>

\* The outcome of an operation that runs the stages without touching the cache
\* c: resolved with value when no stage fails (f = 0), rejected with error when
\* stage f does.
Bypass(c, stages, f, value, error) ==
    [cache |-> c, cacheOps |-> << >>,
     engine |-> EngineCalls(stages, IF f = 0 THEN Len(stages) ELSE f),
     outcome |-> IF f = 0 THEN "resolved" ELSE "rejected",
     value |-> IF f = 0 THEN value ELSE NoError,
     error |-> IF f = 0 THEN NoError ELSE error,
     raised |-> IF f = 0 THEN NoError ELSE StageError(stages, f)]

\* A getStats that memoizes its result like process does.
getStatsMemoized(c, t, size, age, input, f) ==
    LET key == ProcessCacheKey(input, <<<<"stats", Bool(TRUE)>>>>)
        got == CacheGet(c, key, t, age)
        run == Bypass(got.cache, getStatsStages(input), f, [stats |-> input],
                      ImageProcessingError("Failed to retrieve image metadata",
                                           StageError(getStatsStages(input), f), "getStats"))
    IN  IF got.found
        THEN [run EXCEPT !.engine = << >>, !.cacheOps = <<"get">>, !.outcome = "resolved",
                         !.value = got.value, !.error = NoError, !.raised = NoError]
        ELSE IF f = 0
             THEN [run EXCEPT !.cache = CacheSet(got.cache, key, [stats |-> input], t, size),
                              !.cacheOps = <<"get", "set">>]
             ELSE [run EXCEPT !.cacheOps = <<"get">>]

\* ImageProcessor.ts getStats
getStats(c, t, size, age, input, f) ==
    Bypass(c, getStatsStages(input), f, [stats |-> input],
           ImageProcessingError("Failed to retrieve image metadata",
                                StageError(getStatsStages(input), f), "getStats"))

\* ImageProcessor.ts getDominantColor
getDominantColor(c, t, size, age, input, f) ==
    Bypass(c, getDominantColorStages(input), f, [dominant |-> input],
           ImageProcessingError("Failed to get dominant color",
                                StageError(getDominantColorStages(input), f),
                                "getDominantColor"))

\* avatar.ts createAvatar: catch (error) { throw new Error('Failed to create avatar') }
createAvatar(c, input, o, f) ==
    Bypass(c, createAvatarStages(input, o), f,
           [src |-> input, steps |-> EngineCalls(createAvatarStages(input, o), 4)],
           [name |-> "Error", message |-> "Failed to create avatar"])

\* part_002 Sharpify.createAvatar: try { return await createAvatar(input, options) }
\* catch (error) { throw new ImageProcessingError('Failed to create avatar', error,
\* 'createAvatar') }
SharpifyCreateAvatar(c, input, o, f) ==
    LET r == createAvatar(c, input, o, f)
    IN  IF r.outcome = "rejected"
        THEN [r EXCEPT !.error = ImageProcessingError("Failed to create avatar", r.error,
                                                      "createAvatar")]
        ELSE r

(***************************************************************************)
(* The probe specification: calls of process fill the class's cache, the   *)
(* clock advances, and the operations that bypass the cache are called in  *)
(* between.                                                                *)
(***************************************************************************)
AvatarBags == { << >>, << <<"size", Num(64)>> >> }

Probed(op, input, r) ==
    /\ probe' = [op |-> op, input |-> input, at |-> now, before |-> cache,
                 after |-> r.cache, cacheOps |-> r.cacheOps, engine |-> r.engine,
                 outcome |-> r.outcome, value |-> r.value, error |-> r.error,
                 raised |-> r.raised]
    /\ cache' = r.cache
    /\ UNCHANGED <<now, maxSize, maxAge, plan, mark, histVars, keyVars, calls, batchVars>>

GetStats(input, f) ==
    Probed("getStats", input, getStats(cache, now, maxSize, maxAge, input, f))

GetDominantColor(input, f) ==
    Probed("getDominantColor", input,
           getDominantColor(cache, now, maxSize, maxAge, input, f))

\* avatar.ts createAvatar, called directly
CreateAvatar(input, o, f) ==
    Probed("avatar.createAvatar", input, createAvatar(cache, input, o, f))

\* part_002 Sharpify.createAvatar
CreateAvatarOfSharpify(input, o, f) ==
    Probed("Sharpify.createAvatar", input, SharpifyCreateAvatar(cache, input, o, f))

NextProbe ==
    \/ \E input \in Inputs :
           \E f \in FailPoints(ProcessStages(input, << >>)) : ProcessCall(input, << >>, f)
    \/ Advance
    \/ \E input \in Inputs : \E f \in FailPoints(getStatsStages(input)) : GetStats(input, f)
    \/ \E input \in Inputs : \E f \in FailPoints(getDominantColorStages(input)) :
           GetDominantColor(input, f)
    \/ \E input \in Inputs, o \in AvatarBags :
           \E f \in FailPoints(createAvatarStages(input, o)) : CreateAvatar(input, o, f)
    \/ \E input \in Inputs, o \in AvatarBags :
           \E f \in FailPoints(createAvatarStages(input, o)) :
               CreateAvatarOfSharpify(input, o, f)

SpecProbe == Init /\ [][NextProbe]_vars

(***************************************************************************)
(* Claims about the operations that bypass the cache, checked under        *)
(* SpecProbe.                                                              *)
(***************************************************************************)
\* C17: getStats and getDominantColor are not cached: in every state, a call of
\* either neither reads nor changes the memoization cache, and each call invokes
\* the engine.
C17_ProbesBypassTheCache ==
    probe.op \in {"getStats", "getDominantColor"}
    => /\ probe.cacheOps = << >>
       /\ probe.after = probe.before
       /\ probe.engine # << >>
       /\ probe.engine[1].kind = "sharp"

\* getStats on an input whose processed image is in the cache, unexpired: the
\* engine is asked again and the cache stays as it was.
C17_Witness ==
    /\ probe.op = "getStats"
    /\ probe.outcome = "resolved"
    /\ MapHas(probe.before, ProcessCacheKey(probe.input, << >>))
    /\ ~Expired(MapGet(probe.before, ProcessCacheKey(probe.input, << >>)), probe.at, maxAge)
    /\ Len(probe.engine) = 2
    /\ probe.after = probe.before

\* e is error, or a cause of error at any depth.
RECURSIVE InCauseChain(_, _)
InCauseChain(e, error) ==
    \/ e = error
    \/ /\ "originalError" \in DOMAIN error
       /\ InCauseChain(e, error.originalError)

\* C18: when the engine fails inside createAvatar, the error the caller receives
\* is tagged with operation 'createAvatar' and its cause chain still contains the
\* engine's original error.
C18_AvatarErrorKeepsItsCause ==
    probe.op = "Sharpify.createAvatar" /\ probe.outcome = "rejected"
    => /\ "operation" \in DOMAIN probe.error
       /\ probe.error.operation = "createAvatar"
       /\ InCauseChain(probe.raised, probe.error)

\* The part of C18 that holds of Sharpify.createAvatar: the tag.
AvatarErrorOfSharpifyIsTagged ==
    probe.op = "Sharpify.createAvatar" /\ probe.outcome = "rejected"
    => /\ probe.error.operation = "createAvatar"
       /\ probe.error.originalError = [name |-> "Error", message |-> "Failed to create avatar"]

(***************************************************************************)
(* The queue specification: the queue-based scheduler of part_002 alone,   *)
(* with a second batchProcess call that may arrive while the items of the  *)
(* first are still queued or in flight.                                    *)
(***************************************************************************)
QueueInputs == {<< >>, <<7>>}

InitQueue == InitBatch /\ scheduler = "queue"

\* part_002 batchProcess(inputs, options), called again with the options of the
\* first call: its items are pushed behind those already in the queue.
BatchProcessQueuedAgain(inputs) ==
    LET first == Len(items)
        its   == items \o [i \in 1..Len(inputs) |-> NewItem(inputs[i])]
        r     == QueueAll([queue |-> queue, isProcessing |-> isProcessing,
                           items |-> its, cache |-> cache],
                          now, maxAge, batch.options, first + 1)
    IN  /\ scheduler = "queue"
        /\ batch.state # "none"
        /\ overlap.state = "none"
        /\ Len(its) <= MaxItems
        /\ items' = r.items
        /\ queue' = r.queue
        /\ isProcessing' = r.isProcessing
        /\ cache' = r.cache
        /\ overlap' = [offset |-> first] @@ PromiseAll(Len(inputs), inputs, batch.options)
        /\ UNCHANGED <<scheduler, batch, now, maxSize, maxAge, histVars, keyVars, fnVars,
                       calls>>

\* A pipeline run terminates.
RunCompletes == \E i \in 1..MaxItems, ok \in BOOLEAN : ItemCompletes(i, ok)

NextQueue ==
    \/ \E inputs \in SeqsUpTo(QueueInputs, MaxItems), o \in BatchBags :
           BatchProcessQueued(inputs, o)
    \/ \E inputs \in SeqsUpTo(QueueInputs, MaxItems) \ {<< >>} :
           BatchProcessQueuedAgain(inputs)
    \/ RunCompletes

SpecQueue == InitQueue /\ [][NextQueue]_vars

\* Every pipeline run terminates: a run in flight completes, with success or
\* with failure.
SpecQueueFair == SpecQueue /\ WF_vars(RunCompletes)

(***************************************************************************)
(* Claims about the queue-based scheduler, checked under SpecQueue and     *)
(* SpecQueueFair.  The index of an item is its position in the order of    *)
(* the pushes.                                                             *)
(***************************************************************************)
Started(i) == items[i].run # "queued"

Settled(i) == items[i].handle \in {"resolved", "rejected"}

\* C21: items start their pipeline run in exactly the order in which they were
\* pushed, also when batchProcess calls overlap: an item never starts before an
\* item that was pushed earlier, and the queue holds the items not yet started in
\* the order of the pushes.
C21_ItemsStartInPushOrder ==
    /\ \A i, j \in 1..Len(items) : i < j /\ Started(j) => Started(i)
    /\ \A a, b \in 1..Len(queue) : a < b => queue[a] < queue[b]
    /\ \A i \in 1..Len(items) : ~Started(i) <=> \E a \in 1..Len(queue) : queue[a] = i

\* Three items of two overlapping calls: the first has completed, the second,
\* pushed by the second call, is in flight, the third still waits.
C21_Witness ==
    /\ Len(items) = 3
    /\ overlap.state = "pending"
    /\ overlap.offset = 1
    /\ Settled(1)
    /\ items[2].run = "running"
    /\ queue = <<3>>

\* C22: provided every pipeline run terminates, every pushed item eventually has
\* its completion handle resolved or rejected, and once settled a handle never
\* changes; when every item is settled the queue is empty and isProcessing is
\* false; and in no state is the queue non-empty with no item in flight.
C22_EveryItemIsSettledOnce ==
    /\ [](/\ queue # << >> => isProcessing
          /\ isProcessing <=> \E i \in 1..Len(items) : items[i].run = "running"
          /\ (\A i \in 1..Len(items) : Settled(i)) => queue = << >> /\ ~isProcessing)
    /\ \A i \in 1..MaxItems : (i <= Len(items)) ~> (i <= Len(items) /\ Settled(i))
    /\ [][\A i \in 1..Len(items) :
              Settled(i) => /\ items'[i].handle = items[i].handle
                            /\ items'[i].received = items[i].received]_vars

\* Both calls are over: a rejected and a resolved item, nothing queued, nothing
\* in flight.
C22_Witness ==
    /\ Len(items) >= 2
    /\ overlap.state \in {"resolved", "rejected"}
    /\ \A i \in 1..Len(items) : Settled(i)
    /\ \E i, j \in 1..Len(items) :
           items[i].handle = "rejected" /\ items[j].handle = "resolved"
    /\ queue = << >>
    /\ ~isProcessing

(***************************************************************************)
(* Claims about single steps of the pipeline, checked under SpecPlan.      *)
(***************************************************************************)
\* C23: when contrast is a number c, process issues exactly one linear step with
\* multiplier c and offset -(c - 1) * 128, a step of its own beside modulate, so
\* that the level 128 maps to 128; when contrast is absent no linear step is
\* issued.
C23_ContrastIsOneLinearStep ==
    plan.built # "none"
    => LET linear == StepsOfKind(plan.steps, "linear")
           c      == Opt(plan.options, "contrast")
       IN  IF IsNumber(c)
           THEN /\ Len(linear) = 1
                /\ linear[1].args = <<c, Num(-(c.n - 1) * 128)>>
                /\ linear[1].args[1].n * 128 + linear[1].args[2].n = 128
                /\ Len(StepsOfKind(plan.steps, "modulate")) =
                       IF IsNumber(Opt(plan.options, "brightness"))
                          \/ IsNumber(Opt(plan.options, "saturation")) THEN 1 ELSE 0
           ELSE Len(linear) = 0

\* The same statement for the versions that test typeof contrast === 'number'.
ContrastIsOneLinearStepOutsideQueue ==
    plan.built \in {"ImageProcessor", "aspectRatio"}
    => LET linear == StepsOfKind(plan.steps, "linear")
           c      == Opt(plan.options, "contrast")
       IN  IF IsNumber(c)
           THEN /\ Len(linear) = 1
                /\ linear[1].args = <<c, Num(-(c.n - 1) * 128)>>
           ELSE Len(linear) = 0

\* The option fields a step of each kind answers to.
FieldsOf(kind) ==
    CASE kind = "resize"    -> {"width", "height"}
      [] kind = "extract"   -> {"crop"}
      [] kind = "modulate"  -> {"brightness", "saturation"}
      [] kind = "linear"    -> {"contrast"}
      [] kind = "composite" -> {"watermark", "radius"}
      [] kind = "toFormat"  -> {"format"}
      [] OTHER              -> {kind}

\* C24: a step is issued only if its option is present in the bag: every issued
\* step answers to a field that is set, and for the empty bag no step at all is
\* issued.
C24_StepsOnlyForFieldsSet ==
    plan.built # "none"
    => /\ \A i \in 1..Len(plan.steps) :
              \E f \in FieldsOf(plan.steps[i].kind) :
                  HasField(plan.options, f) /\ Opt(plan.options, f) # Undefined
       /\ plan.options = << >> => plan.steps = << >>

\* ImageProcessor.ts composes the pipeline for a bag that sets blur, brightness
\* and contrast to 0 and nothing else: modulate and linear, no blur, no encode.
C24_Witness ==
    /\ plan.built = "ImageProcessor"
    /\ plan.options = << <<"blur", Num(0)>>, <<"brightness", Num(0)>>, <<"contrast", Num(0)>> >>
    /\ [i \in 1..Len(plan.steps) |-> plan.steps[i].kind] = <<"modulate", "linear">>

\* C25: whenever process issues an encode step, the quality it passes to the
\* engine lies in 1..100, whatever quality the caller supplies.
C25_EncodeQualityInRange ==
    plan.built = "ImageProcessor"
    => \A i \in 1..Len(plan.steps) :
           plan.steps[i].kind = "toFormat"
           => /\ IsNumber(plan.steps[i].args[2])
              /\ plan.steps[i].args[2].n \in 1..100

(***************************************************************************)
(* Claims about the cache in process and batchProcess.                     *)
(***************************************************************************)
\* C26: with the key of getCacheKey, process never returns from the cache a
\* result computed from other input bytes: an item that resolves receives the
\* image of its own input, and two items with different buffers have different
\* cache keys under the same options.
C26_CachedResultIsOfTheSameInput ==
    scheduler = "queue"
    => /\ \A i \in 1..Len(items) :
              items[i].handle = "resolved"
              => items[i].received = Image(items[i].input, batch.options)
       /\ \A i, j \in 1..Len(items) :
              items[i].input # items[j].input
              => getCacheKey(items[i].input, batch.options)
                 # getCacheKey(items[j].input, batch.options)

\* The same statement for the key of ImageProcessor.ts, JSON.stringify of input
\* and options.
CachedResultIsOfTheSameInputWithJSONKey ==
    scheduler = "promiseAll"
    => /\ \A i \in 1..Len(items) :
              items[i].handle = "resolved"
              => items[i].received = Image(items[i].input, batch.options)
       /\ \A i, j \in 1..Len(items) :
              items[i].input # items[j].input
              => ProcessCacheKey(items[i].input, batch.options)
                 # ProcessCacheKey(items[j].input, batch.options)

\* The key of the i-th call of process.
KeyOfCall(i) == ProcessCacheKey(calls[i].input, calls[i].options)

\* A call that ran the pipeline to its end stored the image it produced, and
\* every entry of the cache holds the image a successful run produced for the
\* entry's key.
OnlySuccessfulRunsAreStored ==
    /\ \A i \in 1..Len(calls) :
           calls[i].outcome = "resolved" /\ calls[i].engine # << >>
           => /\ MapHas(calls[i].after, KeyOfCall(i))
              /\ MapGet(calls[i].after, KeyOfCall(i)).result = calls[i].value
              /\ calls[i].value = Image(calls[i].input, calls[i].options)
    /\ \A e \in 1..Len(cache) :
           \E i \in 1..Len(calls) :
               /\ calls[i].outcome = "resolved" /\ calls[i].engine # << >>
               /\ KeyOfCall(i) = cache[e].key
               /\ calls[i].value = cache[e].result
               /\ calls[i].at = cache[e].timestamp

\* C27: a process call that fails at any stage leaves the cache exactly as it
\* was before the call; only results of successful pipeline runs are stored, and
\* a stored result is the one produced by the run that stored it.
C27_FailedCallLeavesCacheAsBefore ==
    /\ \A i \in 1..Len(calls) :
           calls[i].outcome = "rejected" => calls[i].after = calls[i].before
    /\ OnlySuccessfulRunsAreStored

\* C27 as the code has it: a failing call stores nothing, and the only change it
\* makes to the cache is the removal of the expired entry under its own key,
\* which the lookup at its start deletes.
C27_FailedCallStoresNothing ==
    /\ \A i \in 1..Len(calls) :
           calls[i].outcome = "rejected"
           => /\ calls[i].after = MapDelete(calls[i].before, KeyOfCall(i))
              /\ MapHas(calls[i].before, KeyOfCall(i))
                 => Expired(MapGet(calls[i].before, KeyOfCall(i)), calls[i].at, maxAge)
    /\ OnlySuccessfulRunsAreStored

\* A call stored its image, the entry expired, and a second call with the same
\* input and options failed in the pipeline: the expired entry is gone.
C27_Witness ==
    /\ Len(calls) = 2
    /\ calls[1].outcome = "resolved"
    /\ calls[2].outcome = "rejected"
    /\ calls[2].failedAt > 0
    /\ MapHas(calls[2].before, KeyOfCall(2))
    /\ calls[2].after = << >>
    /\ cache = << >>

\* C28: a set of a key that is already stored only updates that entry, with the
\* new value and the new timestamp: no other entry is removed and the number of
\* entries is unchanged, also when the cache holds maxSize entries.
C28_SetOfStoredKeyOnlyUpdates ==
    (lastOp.op = "set" /\ MapHas(lastOp.before, lastOp.key))
    => /\ Len(cache) = Len(lastOp.before)
       /\ RemovedOthers = {}
       /\ MapHas(cache, lastOp.key)
       /\ MapGet(cache, lastOp.key) =
              [key |-> lastOp.key, timestamp |-> lastOp.at, result |-> lastOp.value]

\* The same statement for a cache that holds fewer than maxSize entries.
SetOfStoredKeyBelowCapacityOnlyUpdates ==
    (/\ lastOp.op = "set"
     /\ MapHas(lastOp.before, lastOp.key)
     /\ Len(lastOp.before) < maxSize)
    => /\ Len(cache) = Len(lastOp.before)
       /\ RemovedOthers = {}
       /\ MapGet(cache, lastOp.key) =
              [key |-> lastOp.key, timestamp |-> lastOp.at, result |-> lastOp.value]

\* The items whose pipeline was run by the engine.
EngineRuns == {i \in 1..Len(items) : items[i].fate = "engine" /\ Len(items[i].input) > 0}

\* C29: in a batchProcess over inputs that hold the same buffer several times,
\* with the same options and a cold cache, the engine pipeline runs at most once
\* for that buffer, and the other items are served from the cache.
C29_SameBufferRunsEngineOnce ==
    scheduler = "promiseAll"
    => \A i, j \in EngineRuns : items[i].input = items[j].input => i = j

\* The items of the batch whose handle is rejected after the step and was not
\* before it.
NewlyRejected ==
    {i \in 1..Len(items') :
        /\ items'[i].handle = "rejected"
        /\ i <= Len(items) => items[i].handle # "rejected"}

\* C30: batchProcess resolves if and only if every item succeeds; if an item
\* fails it rejects, once, with the error of the item that failed first in time,
\* and no result of another item changes what the caller received.
C30_BatchRejectsWithFirstFailure ==
    /\ [](batch.state # "none"
          => /\ batch.state = "resolved"
                 <=> \A i \in 1..Len(batch.inputs) : items[i].handle = "resolved"
             /\ batch.state = "rejected"
                 <=> \E i \in 1..Len(batch.inputs) : items[i].handle = "rejected"
             /\ batch.state = "rejected"
                 => /\ batchProcess(scheduler, batch).state = "rejected"
                    /\ \E i \in 1..Len(batch.inputs) :
                           /\ items[i].handle = "rejected"
                           /\ batchProcess(scheduler, batch).error = items[i].received)
    /\ [][batch.state # "rejected" /\ batch'.state = "rejected"
          => /\ NewlyRejected # {}
             /\ \A j \in 1..Len(items) : items[j].handle # "rejected"
             /\ \E i \in NewlyRejected :
                    /\ \A k \in NewlyRejected : i <= k
                    /\ batch'.error = items'[i].received]_vars
    /\ [][batch.state \in {"resolved", "rejected"} => batch' = batch]_vars

\* Two items of a batch have failed, the second before the first: the batch
\* holds the error of the second, and the third item has resolved since.
C30_Witness ==
    /\ Len(items) = 3
    /\ batch.state = "rejected"
    /\ items[1].handle = "rejected"
    /\ items[2].handle = "rejected"
    /\ items[3].handle = "resolved"
    /\ batch.error = items[2].received
    /\ batch.error # items[1].received

====
